---- MODULE Spec2Model ----
EXTENDS Integers, Sequences, FiniteSets, TLC

(***************************************************************************)
(* Model of the website_checker crate: check_many (concurrent.rs), the     *)
(* probe (status.rs), the validation engine (validation.rs) and the        *)
(* summary (stats.rs).  Spec runs a batch; UnitSpec calls one function.    *)
(*                                                                         *)
(* Text is modelled as a sequence of bytes.  An ASCII byte is written as   *)
(* the one-character string of its character; the two bytes of the UTF-8   *)
(* encoding of U+00E9 are written "C3" and "A9".                           *)
(***************************************************************************)

\* ------------------------------------------------------------------ bounds
MaxUrls == 2
MaxWorkers == 2
MaxRetries == 1

\* ------------------------------------------------------------ text helpers
Upper == <<"A","B","C","D","E","F","G","H","I","J","K","L","M",
           "N","O","P","Q","R","S","T","U","V","W","X","Y","Z">>
Lower == <<"a","b","c","d","e","f","g","h","i","j","k","l","m",
           "n","o","p","q","r","s","t","u","v","w","x","y","z">>
Digits == {"0","1","2","3","4","5","6","7","8","9"}

Range(s) == {s[i] : i \in 1..Len(s)}

\* u8::is_ascii_alphanumeric
is_ascii_alphanumeric(b) == b \in Range(Upper) \cup Range(Lower) \cup Digits

\* str::to_ascii_lowercase, byte by byte
to_ascii_lowercase_byte(b) ==
    IF b \in Range(Upper)
    THEN Lower[CHOOSE i \in 1..Len(Upper) : Upper[i] = b]
    ELSE b

to_ascii_lowercase(s) == [i \in 1..Len(s) |-> to_ascii_lowercase_byte(s[i])]

\* str::starts_with
starts_with(s, p) == Len(p) <= Len(s) /\ SubSeq(s, 1, Len(p)) = p

\* byte offsets (0-based) at which p occurs in s
Occurrences(s, p) ==
    {k \in 0..(Len(s) - Len(p)) : SubSeq(s, k + 1, k + Len(p)) = p}

\* str::contains
str_contains(s, p) == Occurrences(s, p) # {}

\* Option<T>
None == [some |-> FALSE, v |-> <<>>]
Some(x) == [some |-> TRUE, v |-> x]

\* ------------------------------------------------------------- Config
HttpsPrefix == <<"h","t","t","p","s",":","/","/">>
ContentType == "Content-Type"
CtTextHtml == <<"t","e","x","t","/","h","t","m","l">>
CtAppJson == <<"a","p","p","l","i","c","a","t","i","o","n","/","j","s","o","n">>

\* impl Default for Config
ConfigDefault ==
    [ https_required |-> TRUE,
      required_headers |-> <<ContentType>>,
      content_type_allow |-> <<CtTextHtml, CtAppJson>>,
      header_equals |-> <<>>,
      header_contains |-> <<>>,
      max_body_bytes |-> 64 * 1024,
      body_contains_all |-> <<>>,
      body_contains_any |-> <<>> ]

\* #[derive(Default)] ValidationReport.  panic is no field of the struct: it
\* marks a validation that aborted its thread (see validate_body).
ReportDefault ==
    [ header_ok |-> FALSE, body_ok |-> FALSE, https_policy_ok |-> FALSE,
      issues |-> <<>>, panic |-> FALSE ]

overall_ok(report) ==
    report.header_ok /\ report.body_ok /\ report.https_policy_ok

\* issue texts: the format string's literal part and its arguments
IssueHttps == <<"HTTPS required by policy, but URL is not https">>
IssueMissingHeader(h) == <<"Missing header: ", h>>
IssueCtNotAllowed(ct) == <<"Content-Type not allowed: ", ct>>
IssueHeaderMismatch(name, v, expected) == <<"Header mismatch", name, v, expected>>
IssueHeaderNotContain(name, needle, v) == <<"Header does not contain", name, needle, v>>
IssueBodyMissing(needle) == <<"Body missing required text: ", needle>>
IssueBodyAny(any) == <<"Body did not contain ANY of: ", any>>
IssueBodyRead(e) == <<"Failed to read response body: ", e>>
IssueTransport(e) == <<"Transport error: ", e>>

\* ------------------------------------------------------ validation engine
\* faulty variant: a violation clears the flag and records nothing
enforce_https_policy_silent(url, report, cfg) ==
    IF ~cfg.https_required
    THEN [report EXCEPT !.https_policy_ok = TRUE]
    ELSE IF starts_with(url, HttpsPrefix)
         THEN [report EXCEPT !.https_policy_ok = TRUE]
         ELSE [report EXCEPT !.https_policy_ok = FALSE]

enforce_https_policy(url, report, cfg) ==
    IF ~cfg.https_required
    THEN [report EXCEPT !.https_policy_ok = TRUE]
    ELSE IF starts_with(url, HttpsPrefix)
         THEN [report EXCEPT !.https_policy_ok = TRUE]
         ELSE [report EXCEPT !.https_policy_ok = FALSE,
                             !.issues = Append(@, IssueHttps)]

\* ureq::Response::header: the value of the first header of that name
header(resp, name) ==
    LET hits == {i \in 1..Len(resp.headers) : resp.headers[i][1] = name}
    IN IF hits = {} THEN None
       ELSE Some(resp.headers[CHOOSE i \in hits : \A j \in hits : i <= j][2])

\* the k-th smallest element of a set of indexes
Pick(I, k) == CHOOSE i \in I : Cardinality({j \in I : j < i}) = k - 1

\* lines 85-90: one issue per absent required header, in configuration order
RequiredHeaderIssues(resp, hs) ==
    LET bad == {i \in 1..Len(hs) : ~header(resp, hs[i]).some}
    IN [k \in 1..Cardinality(bad) |-> IssueMissingHeader(hs[Pick(bad, k)])]

\* faulty variant: the allowlist is compared case-sensitively
ContentTypeIssues_caseSensitive(resp, allow) ==
    IF allow = <<>> THEN <<>>
    ELSE LET ct == header(resp, ContentType)
         IN IF ~ct.some THEN <<IssueMissingHeader(ContentType)>>
            ELSE IF \E i \in 1..Len(allow) : starts_with(ct.v, allow[i])
                 THEN <<>>
                 ELSE <<IssueCtNotAllowed(ct.v)>>

\* lines 93-113: the Content-Type allowlist
ContentTypeIssues(resp, allow) ==
    IF allow = <<>> THEN <<>>
    ELSE LET ct == header(resp, ContentType)
             lower == to_ascii_lowercase(ct.v)
         IN IF ~ct.some THEN <<IssueMissingHeader(ContentType)>>
            ELSE IF \E i \in 1..Len(allow) :
                      starts_with(lower, to_ascii_lowercase(allow[i]))
                 THEN <<>>
                 ELSE <<IssueCtNotAllowed(ct.v)>>

\* lines 116-131: exact header matches, one issue per violated pair
HeaderEqualsIssues(resp, pairs) ==
    LET bad == {i \in 1..Len(pairs) :
                  LET v == header(resp, pairs[i][1]) IN ~v.some \/ v.v # pairs[i][2]}
    IN [k \in 1..Cardinality(bad) |->
          LET p == pairs[Pick(bad, k)]
              v == header(resp, p[1])
          IN IF ~v.some THEN IssueMissingHeader(p[1])
             ELSE IssueHeaderMismatch(p[1], v.v, p[2])]

\* lines 134-149: header contains substring, one issue per violated pair
HeaderContainsIssues(resp, pairs) ==
    LET bad == {i \in 1..Len(pairs) :
                  LET v == header(resp, pairs[i][1])
                  IN ~v.some \/ ~str_contains(v.v, pairs[i][2])}
    IN [k \in 1..Cardinality(bad) |->
          LET p == pairs[Pick(bad, k)]
              v == header(resp, p[1])
          IN IF ~v.some THEN IssueMissingHeader(p[1])
             ELSE IssueHeaderNotContain(p[1], p[2], v.v)]

\* faulty variant: validation stops at the first violated rule
HeaderVerdict_firstOnly(report, found) ==
    [report EXCEPT !.header_ok = (found = <<>>),
                   !.issues = @ \o (IF found = <<>> THEN <<>> ELSE <<found[1]>>)]

\* line 151 and the pushes: ok is false once a rule pushed an issue
HeaderVerdict(report, found) ==
    [report EXCEPT !.header_ok = (found = <<>>), !.issues = @ \o found]

validate_headers(resp, cfg, report) ==
    HeaderVerdict(report,
                  RequiredHeaderIssues(resp, cfg.required_headers)
                  \o ContentTypeIssues(resp, cfg.content_type_allow)
                  \o HeaderEqualsIssues(resp, cfg.header_equals)
                  \o HeaderContainsIssues(resp, cfg.header_contains))

\* ------------------------------------------------------------ token match
\* bytes that continue a multi-byte UTF-8 character
ContinuationBytes == {"A9", "BF", "BD"}
\* U+FFFD REPLACEMENT CHARACTER
Replacement == <<"EF", "BF", "BD">>

\* str::is_char_boundary for a 0-based byte offset
is_char_boundary(text, i) ==
    \/ i = 0
    \/ i = Len(text)
    \/ i < Len(text) /\ text[i + 1] \notin ContinuationBytes

\* needle.chars().all(|c| c.is_alphanumeric()): in valid UTF-8 the characters
\* are ASCII bytes or the pair C3 A9 (U+00E9, a letter)
chars_all_alphanumeric(s) ==
    \A i \in 1..Len(s) : is_ascii_alphanumeric(s[i]) \/ s[i] \in {"C3", "A9"}

\* the while-let loop of contains_token from byte offset i;
\* "panic" when text[i..] slices inside a character
RECURSIVE TokenSearch(_, _, _)
TokenSearch(text, needle, i) ==
    IF ~is_char_boundary(text, i) THEN "panic"
    ELSE LET occ == {k \in Occurrences(text, needle) : k >= i}
         IN IF occ = {} THEN "false"
            ELSE LET start == CHOOSE k \in occ : \A j \in occ : k <= j
                     end == start + Len(needle)
                     left_ok == IF start = 0 THEN TRUE
                                ELSE ~is_ascii_alphanumeric(text[start])
                     right_ok == IF end >= Len(text) THEN TRUE
                                 ELSE ~is_ascii_alphanumeric(text[end + 1])
                 IN IF left_ok /\ right_ok THEN "true"
                    ELSE TokenSearch(text, needle, start + 1)

\* faulty variant: the boundary test is applied to every needle
contains_token_noFallback(text, needle) ==
    IF needle = <<>> THEN "true"
    ELSE IF Len(needle) > Len(text) THEN "false"
    ELSE TokenSearch(text, needle, 0)

\* "true", "false" or "panic"
contains_token(text, needle) ==
    IF needle = <<>> THEN "true"
    ELSE IF ~chars_all_alphanumeric(needle)
         THEN (IF str_contains(text, needle) THEN "true" ELSE "false")
    ELSE IF Len(needle) > Len(text) THEN "false"
    ELSE TokenSearch(text, needle, 0)

\* the ALL-of loop: issues in configuration order, or a panic
RECURSIVE AllOfIssues(_, _)
AllOfIssues(text, needles) ==
    IF needles = <<>> THEN [panic |-> FALSE, issues |-> <<>>]
    ELSE LET r == contains_token(text, Head(needles))
             rest == AllOfIssues(text, Tail(needles))
         IN IF r = "panic" \/ rest.panic THEN [panic |-> TRUE, issues |-> <<>>]
            ELSE [panic |-> FALSE,
                  issues |-> (IF r = "true" THEN <<>>
                              ELSE <<IssueBodyMissing(Head(needles))>>) \o rest.issues]

\* Iterator::any over the ANY-of list (stops at the first hit)
RECURSIVE AnyHit(_, _)
AnyHit(text, needles) ==
    IF needles = <<>> THEN "false"
    ELSE LET r == contains_token(text, Head(needles))
         IN IF r = "false" THEN AnyHit(text, Tail(needles)) ELSE r

\* lines 210-225: ok and the issue list from the two passes
BodyVerdict(all, any, cfg) ==
    IF all.panic \/ any = "panic"
    THEN [panic |-> TRUE, ok |-> FALSE, issues |-> <<>>]
    ELSE [panic |-> FALSE,
          ok |-> (all.issues = <<>>) /\ any = "true",
          issues |-> all.issues \o
                     (IF any = "true" THEN <<>>
                      ELSE <<IssueBodyAny(cfg.body_contains_any)>>)]

check_body_text(text, cfg) ==
    BodyVerdict(AllOfIssues(text, cfg.body_contains_all),
                IF cfg.body_contains_any = <<>> THEN "true"
                ELSE AnyHit(text, cfg.body_contains_any),
                cfg)

\* Read::take(n) then read_to_end
Take(bytes, n) == IF Len(bytes) <= n THEN bytes ELSE SubSeq(bytes, 1, n)

\* String::from_utf8_lossy: a cut or stray byte of a character becomes U+FFFD
RECURSIVE from_utf8_lossy(_)
from_utf8_lossy(buf) ==
    IF buf = <<>> THEN <<>>
    ELSE IF buf[1] = "C3" /\ Len(buf) >= 2 /\ buf[2] = "A9"
         THEN <<"C3", "A9">> \o from_utf8_lossy(SubSeq(buf, 3, Len(buf)))
    ELSE IF buf[1] \in {"C3", "A9"}
         THEN Replacement \o from_utf8_lossy(Tail(buf))
    ELSE <<buf[1]>> \o from_utf8_lossy(Tail(buf))

\* lines 239-241; report.panic marks a validation that aborted the thread
BodyReport(report, r) ==
    [report EXCEPT !.body_ok = r.ok, !.issues = @ \o r.issues, !.panic = r.panic]

\* lines 230-232: read_to_end through take(n) returns the reader's failure
\* only if it asks the reader for more than it delivers; once n bytes are
\* read Take answers end-of-input without calling the reader
ReadFails(resp, n) == resp.body_err /\ Len(resp.body) < n

\* faulty variant: a failed read is taken for an empty body
validate_body_readErrorIgnored(resp, cfg, report) ==
    BodyReport(report,
               check_body_text(
                   from_utf8_lossy(IF ReadFails(resp, cfg.max_body_bytes) THEN <<>>
                                   ELSE Take(resp.body, cfg.max_body_bytes)), cfg))

\* lines 228-242
validate_body(resp, cfg, report) ==
    IF ReadFails(resp, cfg.max_body_bytes)
    THEN [report EXCEPT !.body_ok = FALSE,
                        !.issues = Append(@, IssueBodyRead("io"))]
    ELSE BodyReport(report,
                    check_body_text(
                        from_utf8_lossy(Take(resp.body, cfg.max_body_bytes)), cfg))

\* faulty variant: the body is read and checked whether or not rules exist
BodyStage_alwaysReads(resp, cfg, report) == validate_body(resp, cfg, report)

\* lines 72-78: the body stage, on the report the header stage left
BodyStage(resp, cfg, report) ==
    IF cfg.body_contains_all # <<>> \/ cfg.body_contains_any # <<>>
    THEN validate_body(resp, cfg, report)
    ELSE [report EXCEPT !.body_ok = TRUE]

validate_response(resp, cfg, report) ==
    BodyStage(resp, cfg, validate_headers(resp, cfg, report))

\* ------------------------------------------------------------------ probe
\* CheckStatus
Success(code) == [kind |-> "Success", code |-> code, msg |-> ""]
HttpError(code) == [kind |-> "HttpError", code |-> code, msg |-> ""]
Transport(msg) == [kind |-> "Transport", code |-> 0, msg |-> msg]

\* What agent.get(url).call() can return, with the time it took:
\* Ok(resp), Err(Error::Status(code, resp)) or Err(transport error).
\* body holds the bytes the response's reader delivers; body_err says that
\* the reader fails once they are delivered, instead of ending.
CallOk(code, headers, ms) ==
    [kind |-> "Ok", code |-> code, headers |-> headers, body |-> <<>>,
     body_err |-> FALSE, err |-> "", ms |-> ms]
CallStatus(code, headers, ms) ==
    [kind |-> "Status", code |-> code, headers |-> headers, body |-> <<>>,
     body_err |-> FALSE, err |-> "", ms |-> ms]
CallTransport(err, ms) ==
    [kind |-> "Err", code |-> 0, headers |-> <<>>, body |-> <<>>,
     body_err |-> FALSE, err |-> err, ms |-> ms]

CallResults ==
    { CallOk(200, << <<ContentType, CtTextHtml>> >>, 1),
      CallStatus(404, <<>>, 3),
      CallTransport("dns", 4) }

\* faulty variant: a transport failure only adds its issue, and the body
\* stage then runs as it does for a response
MatchCall_transportValidates(call, cfg, report) ==
    CASE call.kind = "Ok" ->
           [status |-> Success(call.code), response_time |-> call.ms,
            report |-> validate_response(call, cfg, report)]
      [] call.kind = "Status" ->
           [status |-> HttpError(call.code), response_time |-> call.ms,
            report |-> validate_response(call, cfg, report)]
      [] OTHER ->
           [status |-> Transport(call.err), response_time |-> call.ms,
            report |-> BodyStage(call, cfg,
                                 [report EXCEPT !.issues =
                                     Append(@, IssueTransport(call.err))])]

\* lines 76-94: the match on the result of the call
MatchCall(call, cfg, report) ==
    CASE call.kind = "Ok" ->
           [status |-> Success(call.code), response_time |-> call.ms,
            report |-> validate_response(call, cfg, report)]
      [] call.kind = "Status" ->
           [status |-> HttpError(call.code), response_time |-> call.ms,
            report |-> validate_response(call, cfg, report)]
      [] OTHER ->
           [status |-> Transport(call.err), response_time |-> call.ms,
            report |-> [report EXCEPT !.header_ok = FALSE,
                                      !.body_ok = FALSE,
                                      !.issues = Append(@, IssueTransport(call.err))]]

\* faulty variant: a target that violates the HTTPS policy is not requested
BlockedOrCalled(call, cfg, report) ==
    IF report.https_policy_ok THEN MatchCall(call, cfg, report)
    ELSE [status |-> Transport("blocked by policy"), response_time |-> 0,
          report |-> report]
do_request_policyBlocks(url, cfg, call) ==
    BlockedOrCalled(call, cfg, enforce_https_policy(url, ReportDefault, cfg))

\* lines 63-97: the policy check on a fresh report, then the request
do_request(url, cfg, call) ==
    MatchCall(call, cfg, enforce_https_policy(url, ReportDefault, cfg))

\* fetch_network_time_utc() -> Result<String, String>
TimeOk == [ok |-> TRUE, val |-> "2020-01-01T00:00:00Z"]
TimeErr == [ok |-> FALSE, val |-> "Time request failed"]
TimeResults == {TimeOk, TimeErr}
Unknown == "unknown"

\* lines 53-59: the WebsiteStatus built from do_request's triple r.
\* time_calls is no field of the struct: it counts the calls of
\* fetch_network_time_utc the probe made.
StatusWithTimestamp(url, r, timestamp_utc) ==
    [url |-> url, status |-> r.status, response_time |-> r.response_time,
     timestamp_utc |-> timestamp_utc, validation |-> r.report,
     time_calls |-> 0]

\* lines 36-47: the WebsiteStatus built after fetching the time per request
StatusFetchingTime(url, r, time) ==
    [url |-> url, status |-> r.status, response_time |-> r.response_time,
     timestamp_utc |-> IF time.ok THEN time.val ELSE Unknown,
     validation |-> IF time.ok THEN r.report
                    ELSE [r.report EXCEPT !.issues =
                            Append(@, <<"Timestamp fetch failed: ", time.val>>)],
     time_calls |-> 1]

\* faulty variant: the probe fetches the time itself
request_with_timestamp_refetch(url, cfg, timestamp_utc, call) ==
    StatusFetchingTime(url, do_request(url, cfg, call), TimeOk)

request_with_timestamp(url, cfg, timestamp_utc, call) ==
    StatusWithTimestamp(url, do_request(url, cfg, call), timestamp_utc)

request_with(url, cfg, call, time) ==
    StatusFetchingTime(url, do_request(url, cfg, call), time)

\* -------------------------------------------------------------- check_many
UrlHttpsA == <<"h","t","t","p","s",":","/","/","a">>
UrlHttpB == <<"h","t","t","p",":","/","/","b">>
Urls == {UrlHttpsA, UrlHttpB}

\* the target lists tried: https and http targets alternating, from either
UrlLists ==
    { [i \in 1..k |-> IF (i + r) % 2 = 0 THEN UrlHttpsA ELSE UrlHttpB] :
        k \in 0..MaxUrls, r \in 0..1 }
WorkerIds == 1..MaxWorkers

Min(a, b) == IF a <= b THEN a ELSE b
Max(a, b) == IF a >= b THEN a ELSE b

VARIABLES
    urls,          \* argument: the targets
    workers_arg,   \* argument: the requested worker count
    max_retries,   \* argument
    mpc,           \* where the calling thread is in check_many
    workers,       \* the shadowed `workers` of line 20
    batch_ts,      \* Arc<String>
    chans,         \* whether the two channels exist
    job_tx,        \* whether the job sender is alive
    res_senders,   \* number of live result senders (res_tx and its clones)
    jobQ,          \* job channel contents
    resQ,          \* result channel contents
    lock,          \* holder of the Mutex around job_rx, 0 when free
    handles,       \* number of threads spawned so far
    mi,            \* loop index of the calling thread's current for loop
    out,           \* Vec<Option<WebsiteStatus>>
    result,        \* the returned vector
    wpc,           \* where each worker thread is
    wjob,          \* each worker's (idx, url)
    attempts,      \* each worker's retry counter
    wws,           \* each worker's result of the retry loop
    timeCalls,     \* history: calls of fetch_network_time_utc
    timeGot,       \* history: what the batch's call of the time source returned
    callLog,       \* history: per job index, what each HTTP call returned
    attemptLog,    \* history: per job index, the results of its attempts
    deqCnt,        \* history: per job index, how often it was dequeued
    sentCnt,       \* history: per job index, results sent for it
    fillCnt,       \* history: per job index, writes of its output slot
    fcall,         \* a single function called on its own: its name and arguments
    fret           \* what that call returned, None while it has not run

unit == << fcall, fret >>

vars == << unit, urls, workers_arg, max_retries, mpc, workers, batch_ts, chans, job_tx,
           res_senders, jobQ, resQ, lock, handles, mi, out, result,
           wpc, wjob, attempts, wws, timeCalls, timeGot, callLog, attemptLog,
           deqCnt, sentCnt, fillCnt >>

inputs == << urls, workers_arg, max_retries >>
mainLocals == << workers, batch_ts, chans, handles, mi, out, result >>
workerLocals == << wjob, attempts, wws >>
history == << timeCalls, timeGot, callLog, attemptLog, deqCnt, sentCnt, fillCnt >>

n == Len(urls)
NoJob == [idx |-> 0, url |-> <<>>]

\* no function is called on its own during a batch
NoCall ==
    [fn |-> "none", url |-> <<>>, cfg |-> ConfigDefault, report |-> ReportDefault,
     call |-> CallTransport("", 0), text |-> <<>>, needle |-> <<>>, results |-> <<>>]

\* check_many is entered with its arguments; nothing exists yet
InitBatch ==
    /\ urls \in UrlLists
    /\ workers_arg \in 0..MaxWorkers
    /\ max_retries \in 0..MaxRetries
    /\ mpc = "start"
    /\ workers = 0
    /\ batch_ts = ""
    /\ chans = FALSE
    /\ job_tx = FALSE
    /\ res_senders = 0
    /\ jobQ = <<>>
    /\ resQ = <<>>
    /\ lock = 0
    /\ handles = 0
    /\ mi = 0
    /\ out = <<>>
    /\ result = <<>>
    /\ wpc = [w \in WorkerIds |-> "unborn"]
    /\ wjob = [w \in WorkerIds |-> NoJob]
    /\ attempts = [w \in WorkerIds |-> 0]
    /\ wws = [w \in WorkerIds |-> None]
    /\ timeCalls = 0
    /\ timeGot = None
    /\ callLog = [i \in 1..Len(urls) |-> <<>>]
    /\ attemptLog = [i \in 1..Len(urls) |-> <<>>]
    /\ deqCnt = [i \in 1..Len(urls) |-> 0]
    /\ sentCnt = [i \in 1..Len(urls) |-> 0]
    /\ fillCnt = [i \in 1..Len(urls) |-> 0]

Init ==
    /\ fcall = NoCall
    /\ fret = None
    /\ InitBatch

\* faulty variant: the lower clamp is forgotten
EffectiveWorkers_noMax(w, len) == Min(w, len)

\* line 20: workers.max(1).min(n)
EffectiveWorkers(w, len) == Min(Max(w, 1), len)

\* faulty variant: no early return for an empty list
MStart_noEarlyReturn ==
    /\ mpc = "start"
    /\ mpc' = "fetch_ts"
    /\ workers' = Min(Max(workers_arg, 1), n)
    /\ UNCHANGED << unit, inputs, batch_ts, chans, job_tx, res_senders, jobQ, resQ, lock,
                    handles, mi, out, result, wpc, workerLocals, history >>

\* lines 14-21
MStart ==
    /\ mpc = "start"
    /\ IF n = 0
       THEN /\ mpc' = "done"
            /\ result' = <<>>
            /\ workers' = workers
       ELSE /\ mpc' = "fetch_ts"
            /\ workers' = EffectiveWorkers(workers_arg, n)
            /\ result' = result
    /\ UNCHANGED << unit, inputs, batch_ts, chans, job_tx, res_senders, jobQ, resQ, lock,
                    handles, mi, out, wpc, workerLocals, history >>

\* faulty variant: the error text is used as the timestamp
BatchTs_errText(t) == t.val

\* line 25: unwrap_or_else(|_| "unknown".to_string())
BatchTs(t) == IF t.ok THEN t.val ELSE Unknown

\* lines 24-33: the batch timestamp, then the channels
MFetchTs(t) ==
    /\ mpc = "fetch_ts"
    /\ timeCalls' = timeCalls + 1
    /\ timeGot' = Some(t)
    /\ batch_ts' = BatchTs(t)
    /\ chans' = TRUE
    /\ job_tx' = TRUE
    /\ res_senders' = 1
    /\ handles' = 0
    /\ mpc' = "spawn"
    /\ UNCHANGED << unit, inputs, workers, jobQ, resQ, lock, mi, out, result,
                    wpc, workerLocals, callLog, attemptLog, deqCnt, sentCnt, fillCnt >>

\* lines 36-64: one iteration of the spawn loop
MSpawn ==
    /\ mpc = "spawn"
    /\ handles < workers
    /\ handles' = handles + 1
    /\ wpc' = [wpc EXCEPT ![handles + 1] = "lock"]
    /\ res_senders' = res_senders + 1
    /\ UNCHANGED << unit, inputs, mpc, workers, batch_ts, chans, job_tx, jobQ, resQ, lock,
                    mi, out, result, workerLocals, history >>

\* line 65: drop(res_tx)
MDropResTx ==
    /\ mpc = "spawn"
    /\ handles = workers
    /\ res_senders' = res_senders - 1
    /\ mi' = 0
    /\ mpc' = "send"
    /\ UNCHANGED << unit, inputs, workers, batch_ts, chans, job_tx, jobQ, resQ, lock,
                    handles, out, result, wpc, workerLocals, history >>

\* line 69: the job sent for position i (0-based) of the input
JobFor(i) == [idx |-> i, url |-> urls[i + 1]]

\* lines 68-70: one iteration of the send loop
MSendJob ==
    /\ mpc = "send"
    /\ mi < n
    /\ jobQ' = Append(jobQ, JobFor(mi))
    /\ mi' = mi + 1
    /\ UNCHANGED << unit, inputs, mpc, workers, batch_ts, chans, job_tx, res_senders, resQ,
                    lock, handles, out, result, wpc, workerLocals, history >>

\* faulty variant: the job sender is kept alive
MDropJobTx_keep ==
    /\ mpc = "send"
    /\ mi = n
    /\ out' = [i \in 1..n |-> None]
    /\ mpc' = "collect"
    /\ UNCHANGED << unit, inputs, workers, batch_ts, chans, job_tx, res_senders, jobQ, resQ,
                    lock, handles, mi, result, wpc, workerLocals, history >>

\* lines 71-74: drop(job_tx), then the output slots
MDropJobTx ==
    /\ mpc = "send"
    /\ mi = n
    /\ job_tx' = FALSE
    /\ out' = [i \in 1..n |-> None]
    /\ mpc' = "collect"
    /\ UNCHANGED << unit, inputs, workers, batch_ts, chans, res_senders, jobQ, resQ, lock,
                    handles, mi, result, wpc, workerLocals, history >>

\* faulty variant: slots filled from the other end
Slot_reversed(idx) == n - idx

\* line 76: the slot of out (1-based here) written for a received idx
Slot(idx) == idx + 1

\* lines 75-77: one iteration of the collect loop
MCollect ==
    /\ mpc = "collect"
    /\ resQ # <<>>
    /\ LET m == Head(resQ)
       IN /\ out' = [out EXCEPT ![Slot(m.idx)] = Some(m.ws)]
          /\ fillCnt' = [fillCnt EXCEPT ![Slot(m.idx)] = @ + 1]
    /\ resQ' = Tail(resQ)
    /\ UNCHANGED << unit, inputs, mpc, workers, batch_ts, chans, job_tx, res_senders, jobQ,
                    lock, handles, mi, result, wpc, workerLocals,
                    timeCalls, timeGot, callLog, attemptLog, deqCnt, sentCnt >>

\* faulty variant: try_iter() instead of iter(): the loop ends on an empty channel
MCollectEnd_tryIter ==
    /\ mpc = "collect"
    /\ resQ = <<>>
    /\ mi' = 0
    /\ mpc' = "join"
    /\ UNCHANGED << unit, inputs, workers, batch_ts, chans, job_tx, res_senders, jobQ, resQ,
                    lock, handles, out, result, wpc, workerLocals, history >>

\* line 75: res_rx.iter() ends once the channel is empty and every sender is gone
MCollectEnd ==
    /\ mpc = "collect"
    /\ resQ = <<>>
    /\ res_senders = 0
    /\ mi' = 0
    /\ mpc' = "join"
    /\ UNCHANGED << unit, inputs, workers, batch_ts, chans, job_tx, res_senders, jobQ, resQ,
                    lock, handles, out, result, wpc, workerLocals, history >>

\* lines 80-82: one iteration of the join loop
MJoin ==
    /\ mpc = "join"
    /\ mi < handles
    /\ wpc[mi + 1] = "exit"
    /\ mi' = mi + 1
    /\ UNCHANGED << unit, inputs, mpc, workers, batch_ts, chans, job_tx, res_senders, jobQ,
                    resQ, lock, handles, out, result, wpc, workerLocals,
                    history >>

\* line 85: o.expect("missing result") on every slot
MFinish ==
    /\ mpc = "join"
    /\ mi = handles
    /\ IF \E i \in 1..n : ~out[i].some
       THEN mpc' = "panic" /\ result' = result
       ELSE mpc' = "done" /\ result' = [i \in 1..n |-> out[i].v]
    /\ UNCHANGED << unit, inputs, workers, batch_ts, chans, job_tx, res_senders, jobQ, resQ,
                    lock, handles, mi, out, wpc, workerLocals, history >>

\* line 44: rx.lock().unwrap().  No thread panics holding the Mutex (with
\* Config::default() no body rule runs), so it is never poisoned.
WLock(w) ==
    /\ wpc[w] = "lock"
    /\ lock = 0
    /\ lock' = w
    /\ wpc' = [wpc EXCEPT ![w] = "recv"]
    /\ UNCHANGED << unit, inputs, mpc, mainLocals, job_tx, res_senders, jobQ, resQ,
                    workerLocals, history >>

\* faulty variant: the job channel hands out the newest job
WRecv_lifo(w) ==
    /\ wpc[w] = "recv"
    /\ jobQ # <<>>
    /\ wjob' = [wjob EXCEPT ![w] = jobQ[Len(jobQ)]]
    /\ jobQ' = SubSeq(jobQ, 1, Len(jobQ) - 1)
    /\ attempts' = [attempts EXCEPT ![w] = 0]
    /\ deqCnt' = [deqCnt EXCEPT ![jobQ[Len(jobQ)].idx + 1] = @ + 1]
    /\ wpc' = [wpc EXCEPT ![w] = "probe"]
    /\ UNCHANGED << unit, inputs, mpc, mainLocals, job_tx, res_senders, resQ, lock,
                    wws, timeCalls, timeGot, callLog, attemptLog,
                    sentCnt, fillCnt >>

\* line 44: .recv() returns a job
WRecv(w) ==
    /\ wpc[w] = "recv"
    /\ jobQ # <<>>
    /\ wjob' = [wjob EXCEPT ![w] = Head(jobQ)]
    /\ jobQ' = Tail(jobQ)
    /\ attempts' = [attempts EXCEPT ![w] = 0]
    /\ deqCnt' = [deqCnt EXCEPT ![Head(jobQ).idx + 1] = @ + 1]
    /\ wpc' = [wpc EXCEPT ![w] = "probe"]
    /\ UNCHANGED << unit, inputs, mpc, mainLocals, job_tx, res_senders, resQ, lock,
                    wws, timeCalls, timeGot, callLog, attemptLog,
                    sentCnt, fillCnt >>

\* line 44: .recv() fails on the empty, closed channel; the while-let loop
\* ends and the MutexGuard temporary is dropped
WRecvClosed(w) ==
    /\ wpc[w] = "recv"
    /\ jobQ = <<>>
    /\ chans /\ ~job_tx
    /\ lock' = 0
    /\ wpc' = [wpc EXCEPT ![w] = "left"]
    /\ UNCHANGED << unit, inputs, mpc, mainLocals, job_tx, res_senders, jobQ, resQ,
                    workerLocals, history >>

\* line 62: the closure returns and drops its captures, its clone of res_tx
\* among them
WReturn(w) ==
    /\ wpc[w] = "left"
    /\ res_senders' = res_senders - 1
    /\ wpc' = [wpc EXCEPT ![w] = "returned"]
    /\ UNCHANGED << unit, inputs, mpc, mainLocals, job_tx, jobQ, resQ, lock,
                    workerLocals, history >>

\* the thread ends; join() on its handle returns from now on (line 81)
WExit(w) ==
    /\ wpc[w] = "returned"
    /\ wpc' = [wpc EXCEPT ![w] = "exit"]
    /\ UNCHANGED << unit, inputs, mpc, mainLocals, job_tx, res_senders, jobQ, resQ, lock,
                    workerLocals, history >>

\* faulty variant: one retry too many
ShouldRetry_offByOne(status, att, retries) ==
    status.kind = "Transport" /\ att <= retries

\* faulty variant: every failure is retried, an HTTP error status too
ShouldRetry_anyFailure(status, att, retries) ==
    status.kind # "Success" /\ att < retries

\* lines 50-56: the match guard of the retry loop
ShouldRetry(status, att, retries) == status.kind = "Transport" /\ att < retries

\* faulty variant: an attempt's issues are added to those of the attempt before
WAttempt_accumulate(w, ws) ==
    /\ attemptLog' = [attemptLog EXCEPT ![wjob[w].idx + 1] = Append(@, ws)]
    /\ timeCalls' = timeCalls + ws.time_calls
    /\ IF ShouldRetry(ws.status, attempts[w], max_retries)
       THEN /\ attempts' = [attempts EXCEPT ![w] = @ + 1]
            /\ UNCHANGED << wpc, wws >>
       ELSE /\ wws' = [wws EXCEPT ![w] = Some(
                    IF attemptLog[wjob[w].idx + 1] = <<>> THEN ws
                    ELSE [ws EXCEPT !.validation.issues =
                            attemptLog[wjob[w].idx + 1][
                                Len(attemptLog[wjob[w].idx + 1])].validation.issues \o @])]
            /\ wpc' = [wpc EXCEPT ![w] = "send"]
            /\ UNCHANGED attempts

\* lines 50-57: what the worker does with the result ws of an attempt
WAttempt(w, ws) ==
    /\ attemptLog' = [attemptLog EXCEPT ![wjob[w].idx + 1] = Append(@, ws)]
    /\ timeCalls' = timeCalls + ws.time_calls
    /\ IF ShouldRetry(ws.status, attempts[w], max_retries)
       THEN /\ attempts' = [attempts EXCEPT ![w] = @ + 1]
            /\ UNCHANGED << wpc, wws >>
       ELSE /\ wws' = [wws EXCEPT ![w] = Some(ws)]
            /\ wpc' = [wpc EXCEPT ![w] = "send"]
            /\ UNCHANGED attempts

\* faulty variant: a target to retry goes back on the job queue and the
\* worker takes whatever job comes next
WProbe_requeue(w, call) ==
    /\ wpc[w] = "probe"
    /\ callLog' = [callLog EXCEPT ![wjob[w].idx + 1] = Append(@, call)]
    /\ attemptLog' = [attemptLog EXCEPT ![wjob[w].idx + 1] =
          Append(@, request_with_timestamp(wjob[w].url, ConfigDefault, batch_ts, call))]
    /\ timeCalls' = timeCalls
    /\ IF call.kind = "Err" /\ Len(callLog[wjob[w].idx + 1]) < max_retries /\ job_tx
       THEN /\ jobQ' = Append(jobQ, wjob[w])
            /\ wjob' = [wjob EXCEPT ![w] = NoJob]
            /\ lock' = 0
            /\ wpc' = [wpc EXCEPT ![w] = "lock"]
            /\ UNCHANGED << attempts, wws >>
       ELSE /\ wws' = [wws EXCEPT ![w] = Some(
                    request_with_timestamp(wjob[w].url, ConfigDefault, batch_ts, call))]
            /\ wpc' = [wpc EXCEPT ![w] = "send"]
            /\ UNCHANGED << attempts, jobQ, wjob, lock >>
    /\ UNCHANGED << unit, inputs, mpc, mainLocals, job_tx, res_senders, resQ,
                    timeGot, deqCnt, sentCnt, fillCnt >>

\* lines 48-57: one attempt of the retry loop, ended by the response `call`
WProbe(w, call) ==
    /\ wpc[w] = "probe"
    /\ WAttempt(w, request_with_timestamp(wjob[w].url, ConfigDefault, batch_ts, call))
    /\ callLog' = [callLog EXCEPT ![wjob[w].idx + 1] = Append(@, call)]
    /\ UNCHANGED << unit, inputs, mpc, mainLocals, job_tx, res_senders, jobQ, resQ, lock,
                    wjob, timeGot, deqCnt, sentCnt, fillCnt >>

\* lines 60-61: tx.send((idx, ws)) moves ws into the channel; then the loop
\* body ends, dropping idx, url, attempts and the MutexGuard taken at line 44
WSend(w) ==
    /\ wpc[w] = "send"
    /\ resQ' = Append(resQ, [idx |-> wjob[w].idx, ws |-> wws[w].v])
    /\ sentCnt' = [sentCnt EXCEPT ![wjob[w].idx + 1] = @ + 1]
    /\ wws' = [wws EXCEPT ![w] = None]
    /\ wjob' = [wjob EXCEPT ![w] = NoJob]
    /\ attempts' = [attempts EXCEPT ![w] = 0]
    /\ lock' = 0
    /\ wpc' = [wpc EXCEPT ![w] = "lock"]
    /\ UNCHANGED << unit, inputs, mpc, mainLocals, job_tx, res_senders, jobQ,
                    timeCalls, timeGot, callLog, attemptLog, deqCnt, fillCnt >>

Next ==
    \/ MStart
    \/ \E t \in TimeResults : MFetchTs(t)
    \/ MSpawn
    \/ MDropResTx
    \/ MSendJob
    \/ MDropJobTx
    \/ MCollect
    \/ MCollectEnd
    \/ MJoin
    \/ MFinish
    \/ \E w \in WorkerIds : WLock(w)
    \/ \E w \in WorkerIds : WRecv(w)
    \/ \E w \in WorkerIds : WRecvClosed(w)
    \/ \E w \in WorkerIds : WReturn(w)
    \/ \E w \in WorkerIds : WExit(w)
    \/ \E w \in WorkerIds, call \in CallResults : WProbe(w, call)
    \/ \E w \in WorkerIds : WSend(w)

Spec == Init /\ [][Next]_vars

\* the steps of the calling thread and of worker thread w
Main ==
    \/ MStart
    \/ \E t \in TimeResults : MFetchTs(t)
    \/ MSpawn \/ MDropResTx \/ MSendJob \/ MDropJobTx
    \/ MCollect \/ MCollectEnd \/ MJoin \/ MFinish

Worker(w) ==
    \/ WLock(w) \/ WRecv(w) \/ WRecvClosed(w) \/ WReturn(w) \/ WExit(w)
    \/ \E call \in CallResults : WProbe(w, call)
    \/ WSend(w)

\* Every thread that can take a step eventually takes one (the OS scheduler),
\* and every HTTP call returns (ureq's 5 s timeout, status.rs line 72).
FairSpec ==
    Spec /\ WF_vars(Main) /\ \A w \in WorkerIds : WF_vars(Worker(w))

\* ------------------------------------------------------------- Stats
\* An f64 that is the quotient of two integers is kept as that quotient in
\* lowest terms (the f64 is the double nearest to it); 0.0 / 0.0 is NaN.
RECURSIVE Gcd(_, _)
Gcd(a, b) == IF b = 0 THEN a ELSE Gcd(b, a % b)
NaN == [num |-> 0, den |-> 0]
F64(i) == [num |-> i, den |-> 1]
F64Div(a, b) ==
    IF b = 0 THEN NaN
    ELSE [num |-> a \div Gcd(a, b), den |-> b \div Gcd(a, b)]

\* faulty variant: a transport failure is counted as an HTTP error
TallyStep_transportAsHttp(acc, r) ==
    [acc EXCEPT !.total_ms = @ + r.response_time,
                !.successes = @ + (IF r.status.kind = "Success" THEN 1 ELSE 0),
                !.http_errors = @ + (IF r.status.kind # "Success" THEN 1 ELSE 0)]

\* stats.rs lines 34-39: the body of the for loop
TallyStep(acc, r) ==
    [acc EXCEPT !.total_ms = @ + r.response_time,
                !.successes = @ + (IF r.status.kind = "Success" THEN 1 ELSE 0),
                !.http_errors = @ + (IF r.status.kind = "HttpError" THEN 1 ELSE 0),
                !.transport_errors = @ + (IF r.status.kind = "Transport" THEN 1 ELSE 0)]

\* stats.rs lines 28-40: the counters after the loop over results
RECURSIVE Tally(_, _)
Tally(results, acc) ==
    IF results = <<>> THEN acc
    ELSE Tally(Tail(results), TallyStep(acc, Head(results)))

TallyZero == [successes |-> 0, http_errors |-> 0, transport_errors |-> 0, total_ms |-> 0]

\* faulty variant: the ratio is not scaled to a percentage
uptime_pct_ratio(successes, total) == F64Div(successes, total)

\* stats.rs line 43
uptime_pct(successes, total) == F64Div(successes * 100, total)

\* stats.rs line 42
avg_response_ms(total_ms, total) == F64Div(total_ms, total)

\* stats.rs lines 42-52: the Stats built from the counters
StatsOf(total, t) ==
    [ total |-> total, successes |-> t.successes, http_errors |-> t.http_errors,
      transport_errors |-> t.transport_errors,
      avg_response_ms |-> avg_response_ms(t.total_ms, total),
      uptime_pct |-> uptime_pct(t.successes, total) ]

\* faulty variant: no guard for the empty list
compute_noGuard(results) == StatsOf(Len(results), Tally(results, TallyZero))

\* Stats::compute
compute(results) ==
    IF Len(results) = 0
    THEN [ total |-> 0, successes |-> 0, http_errors |-> 0, transport_errors |-> 0,
           avg_response_ms |-> F64(0), uptime_pct |-> F64(0) ]
    ELSE StatsOf(Len(results), Tally(results, TallyZero))

\* ------------------------------------------------- functions called alone
MaxTextLen == 4
MaxNeedleLen == 2
MaxBodyLen == 2
MaxRules == 2
MaxResults == 3

\* the characters texts are made of: two ASCII alphanumerics, a punctuation
\* mark, and U+00E9 (alphanumeric, two bytes in UTF-8)
Chars == {"a", "1", "-", "U+00E9"}

\* the UTF-8 bytes of a sequence of characters
RECURSIVE Utf8(_)
Utf8(cs) ==
    IF cs = <<>> THEN <<>>
    ELSE (IF Head(cs) = "U+00E9" THEN <<"C3", "A9">> ELSE <<Head(cs)>>) \o Utf8(Tail(cs))

\* every &str of at most k characters
Strs(k) == {Utf8(cs) : cs \in UNION {[1..m -> Chars] : m \in 0..k}}

\* every Vec of at most k elements of S
Vecs(S, k) == UNION {[1..m -> S] : m \in 0..k}

RuleNeedles == {Utf8(<<"a">>), Utf8(<<"U+00E9">>), Utf8(<<"a", "-">>)}

\* targets: https, http, and https written with an upper-case scheme
UrlHttpsUpper == <<"H","T","T","P","S",":","/","/","a">>
ProbeUrls == {UrlHttpsA, UrlHttpB, UrlHttpsUpper}

XFrameOptions == "X-Frame-Options"
Deny == <<"D","E","N","Y">>

ProbeConfigs ==
    { ConfigDefault,
      [ConfigDefault EXCEPT !.https_required = FALSE],
      [ConfigDefault EXCEPT !.body_contains_all = <<Utf8(<<"a">>)>>],
      [ConfigDefault EXCEPT !.body_contains_all = <<Utf8(<<"a">>)>>,
                            !.max_body_bytes = 1],
      [ConfigDefault EXCEPT !.header_equals = << <<XFrameOptions, Deny>> >>] }

ProbeHeaders ==
    { << <<ContentType, CtTextHtml>> >>,
      << <<ContentType, CtTextHtml>>, <<XFrameOptions, Deny>> >>,
      << >> }

\* ureq answers Ok(resp) for a status below 400 that it does not follow as a
\* redirect (304 is one) and Err(Error::Status(code, resp)) from 400 on
OkCodes == {200, 204, 304}
StatusCodes == {404, 500}

ProbeCalls ==
    { [CallOk(c, h, 1) EXCEPT !.body = b, !.body_err = e] :
        c \in OkCodes, h \in ProbeHeaders, b \in Strs(1), e \in BOOLEAN }
    \cup
    { [CallStatus(c, h, 3) EXCEPT !.body = b, !.body_err = e] :
        c \in StatusCodes, h \in ProbeHeaders, b \in Strs(1), e \in BOOLEAN }
    \cup
    { CallTransport(m, 4) : m \in {"dns", "timeout"} }

\* header values and rules for validate_headers
CtTextHtmlUpper == <<"T","E","X","T","/","H","T","M","L">>
CtTextHtmlCharset == CtTextHtml \o <<";","c">>
CtTextPlain == <<"t","e","x","t","/","p">>
CacheControl == "Cache-Control"
MaxAge1 == <<"m","a","x","-","a","g","e","=","1">>
MaxAgeEq == <<"m","a","x","-","a","g","e","=">>
NoStore == <<"n","o","-","s","t","o","r","e">>
SameOrigin == <<"S","A","M","E">>

\* an optional header: absent, or present with one of the values
OptHeader(name, values) == {<<>>} \cup {<< <<name, v>> >> : v \in values}

HeaderLists ==
    { ct \o xfo \o cc :
        ct \in OptHeader(ContentType,
                         {CtTextHtml, CtTextHtmlUpper, CtTextHtmlCharset, CtTextPlain}),
        xfo \in OptHeader(XFrameOptions, {Deny, SameOrigin}),
        cc \in OptHeader(CacheControl, {MaxAge1, NoStore}) }

HeaderConfigs ==
    { [ConfigDefault EXCEPT !.required_headers = rh, !.content_type_allow = al,
                            !.header_equals = he, !.header_contains = hc] :
        rh \in {<<>>, <<ContentType>>, <<ContentType, XFrameOptions>>,
                <<XFrameOptions, CacheControl>>},
        al \in {<<>>, <<CtTextHtml, CtAppJson>>, <<CtTextHtmlUpper>>},
        he \in {<<>>, << <<XFrameOptions, Deny>> >>,
                << <<XFrameOptions, Deny>>, <<CacheControl, NoStore>> >>},
        hc \in {<<>>, << <<CacheControl, MaxAgeEq>> >>} }

\* body rules and caps for validate_body
MaxCap == 3
CapNeedles == {Utf8(<<"a">>), Utf8(<<"U+00E9">>)}
CapConfigs ==
    { [ConfigDefault EXCEPT !.max_body_bytes = cap, !.body_contains_all = all,
                            !.body_contains_any = any] :
        cap \in 0..MaxCap, all \in Vecs(CapNeedles, 1), any \in Vecs(CapNeedles, 1) }

\* reports handed to enforce_https_policy: fresh, or holding an issue already
ProbeReports ==
    { ReportDefault, [ReportDefault EXCEPT !.issues = <<IssueMissingHeader(ContentType)>>] }

\* the results Stats::compute is given: probes of one target
ResultSamples ==
    { StatusWithTimestamp(UrlHttpsA, do_request(UrlHttpsA, ConfigDefault, c), Unknown) :
        c \in CallResults \cup {CallOk(204, << <<ContentType, CtTextHtml>> >>, 0)} }

\* the arguments drawn for the one call: do_request; enforce_https_policy;
\* contains_token; check_body_text; Stats::compute; validate_body;
\* validate_headers
DrawCall ==
    \/ \E u \in ProbeUrls, c \in ProbeConfigs, r \in ProbeCalls :
          fcall = [NoCall EXCEPT !.fn = "do_request", !.url = u, !.cfg = c, !.call = r]
    \/ \E u \in ProbeUrls, c \in ProbeConfigs, rep \in ProbeReports :
          fcall = [NoCall EXCEPT !.fn = "enforce_https_policy", !.url = u, !.cfg = c,
                                 !.report = rep]
    \/ \E t \in Strs(MaxTextLen), nd \in Strs(MaxNeedleLen) :
          fcall = [NoCall EXCEPT !.fn = "contains_token", !.text = t, !.needle = nd]
    \/ \E t \in Strs(MaxBodyLen), all \in Vecs(RuleNeedles, MaxRules),
           any \in Vecs(RuleNeedles, MaxRules) :
          fcall = [NoCall EXCEPT !.fn = "check_body_text", !.text = t,
                                 !.cfg = [ConfigDefault EXCEPT !.body_contains_all = all,
                                                               !.body_contains_any = any]]
    \/ \E rs \in Vecs(ResultSamples, MaxResults) :
          fcall = [NoCall EXCEPT !.fn = "compute", !.results = rs]
    \/ \E b \in Strs(MaxTextLen), e \in BOOLEAN, c \in CapConfigs :
          fcall = [NoCall EXCEPT !.fn = "validate_body", !.cfg = c,
                                 !.call = [CallOk(200, <<>>, 1) EXCEPT !.body = b,
                                                                       !.body_err = e]]
    \/ \E h \in HeaderLists, c \in HeaderConfigs, rep \in ProbeReports :
          fcall = [NoCall EXCEPT !.fn = "validate_headers", !.call = CallOk(200, h, 1),
                                 !.cfg = c, !.report = rep]

batch == << inputs, mpc, mainLocals, job_tx, res_senders, jobQ, resQ, lock,
            wpc, workerLocals, history >>

\* one function is about to be called on drawn arguments; no batch runs
UnitInit ==
    /\ urls = <<>> /\ workers_arg = 0 /\ max_retries = 0
    /\ InitBatch
    /\ DrawCall
    /\ fret = None

Returns(fn, v) ==
    /\ fcall.fn = fn
    /\ ~fret.some
    /\ fret' = Some(v)
    /\ UNCHANGED << fcall, batch >>

Call_do_request == Returns("do_request", do_request(fcall.url, fcall.cfg, fcall.call))

Call_enforce_https_policy ==
    Returns("enforce_https_policy",
            enforce_https_policy(fcall.url, fcall.report, fcall.cfg))

Call_contains_token ==
    Returns("contains_token", contains_token(fcall.text, fcall.needle))

Call_check_body_text ==
    Returns("check_body_text", check_body_text(fcall.text, fcall.cfg))

Call_compute == Returns("compute", compute(fcall.results))

Call_validate_headers ==
    Returns("validate_headers", validate_headers(fcall.call, fcall.cfg, fcall.report))

Call_validate_body ==
    Returns("validate_body", validate_body(fcall.call, fcall.cfg, fcall.report))

UnitNext ==
    \/ Call_do_request
    \/ Call_enforce_https_policy
    \/ Call_contains_token
    \/ Call_check_body_text
    \/ Call_compute
    \/ Call_validate_headers
    \/ Call_validate_body

UnitSpec == UnitInit /\ [][UnitNext]_vars

\* ------------------------------------------------------------------ properties
Last(q) == q[Len(q)]
AllTransport(i) ==
    \A k \in 1..Len(attemptLog[i]) : attemptLog[i][k].status.kind = "Transport"
AllExited == \A w \in 1..handles : wpc[w] = "exit"

\* C1: check_many returns, never panics, and for a non-empty list the returned
\* list has the input's length with position i holding the result of input
\* target i: its url is input[i] and it is the final attempt made for job i.
C1_InputOrderKept ==
    /\ mpc # "panic"
    /\ (mpc = "done" /\ n > 0) =>
         /\ Len(result) = n
         /\ \A i \in 1..n : /\ result[i].url = urls[i]
                            /\ attemptLog[i] # <<>>
                            /\ result[i] = Last(attemptLog[i])

\* C1 witness: a returned batch of two different targets on two workers, the
\* first of which was retried.
C1_Witness ==
    /\ mpc = "done" /\ n = 2 /\ workers = 2
    /\ urls[1] # urls[2]
    /\ Len(attemptLog[1]) = 2 /\ Len(attemptLog[2]) = 1

\* C2: every job is dequeued at most once, one result at most is sent for it
\* and its slot is written at most once; once the result channel has closed
\* each job was dequeued once, sent once and its slot filled once, so the
\* "missing result" expect never fires.
C2_ExactlyOneResult ==
    /\ mpc # "panic"
    /\ \A i \in 1..n : /\ deqCnt[i] <= 1
                       /\ sentCnt[i] <= deqCnt[i]
                       /\ fillCnt[i] <= sentCnt[i]
    /\ mpc \in {"join", "done"} =>
         \A i \in 1..n : /\ deqCnt[i] = 1 /\ sentCnt[i] = 1 /\ fillCnt[i] = 1
                         /\ out[i].some

\* C2 witness: the result channel has closed on a batch of two in which one
\* target took two attempts.
C2_Witness ==
    /\ mpc = "join" /\ n = 2
    /\ \E i \in 1..n : Len(attemptLog[i]) = 2
    /\ \A i \in 1..n : fillCnt[i] = 1

\* C3: no target is attempted more than max_retries + 1 times; a finished
\* target whose every attempt was Transport was attempted exactly
\* max_retries + 1 times, and the returned result is its last attempt.
C3_TransportRetriedToBudget ==
    \A i \in 1..n :
       /\ Len(attemptLog[i]) <= max_retries + 1
       /\ (sentCnt[i] = 1 /\ AllTransport(i)) => Len(attemptLog[i]) = max_retries + 1
       /\ (mpc = "done" /\ AllTransport(i)) =>
            /\ result[i] = Last(attemptLog[i])
            /\ result[i].status.kind = "Transport"

\* C3 witness: with max_retries = 1 a target failed twice with Transport
\* while the other target of the batch succeeded.
C3_Witness ==
    /\ mpc = "done" /\ n = 2 /\ max_retries = 1
    /\ AllTransport(1) /\ Len(attemptLog[1]) = 2
    /\ result[2].status.kind = "Success"

\* C4: every attempt that was followed by another one had outcome Transport
\* and fewer than max_retries retries before it; so a Success or HttpError
\* attempt is the last one of its target.
C4_FinalOutcomeNotRetried ==
    \A i \in 1..n : \A k \in 1..(Len(attemptLog[i]) - 1) :
       /\ attemptLog[i][k].status.kind = "Transport"
       /\ k - 1 < max_retries

\* C4 witness: with max_retries = 1, one target succeeded and one returned an
\* HTTP error status on the first attempt, and each was attempted once.
C4_Witness ==
    /\ mpc = "done" /\ n = 2 /\ max_retries = 1
    /\ Len(attemptLog[1]) = 1 /\ result[1].status.kind = "Success"
    /\ Len(attemptLog[2]) = 1 /\ result[2].status.kind = "HttpError"

\* C5: a worker waiting for its next job, with a job in the queue, is never
\* kept waiting by another worker's probe in progress.
C5_IdleWorkerNeverBlockedByProbe ==
    \A w1, w2 \in WorkerIds :
       ~(/\ w1 # w2
         /\ wpc[w1] = "lock" /\ jobQ # <<>>
         /\ wpc[w2] = "probe" /\ lock = w2)

\* C6: under fair scheduling, with every HTTP call returning, check_many
\* returns: the queues are drained, every worker has exited, every result
\* sender is gone and the returned list has one result per target.
C6_BatchTerminates ==
    <>(/\ mpc = "done"
       /\ jobQ = <<>> /\ resQ = <<>>
       /\ AllExited
       /\ Len(result) = n
       /\ (n > 0 => res_senders = 0 /\ ~job_tx /\ lock = 0))

\* C6 witness: a batch returned although one of its targets failed with
\* Transport on every attempt, the other succeeding.
C6_Witness ==
    /\ mpc = "done" /\ n = 2 /\ AllExited
    /\ result[1].status.kind = "Transport"
    /\ result[2].status.kind = "Success"

\* C7: for a non-empty list the threads spawned number max(1, min(workers, n)):
\* 1 for a request of 0, n for a request above n, the request otherwise.
C7_WorkersClamped ==
    n > 0 =>
      /\ Cardinality({w \in WorkerIds : wpc[w] # "unborn"}) = handles
      /\ handles <= (IF workers_arg = 0 THEN 1
                     ELSE IF workers_arg > n THEN n ELSE workers_arg)
      /\ mpc \notin {"start", "fetch_ts", "spawn"} =>
           handles = (IF workers_arg = 0 THEN 1
                      ELSE IF workers_arg > n THEN n ELSE workers_arg)

\* C7 witness: a batch of two targets requested with 0 workers ran on one.
C7_Witness ==
    /\ mpc = "done" /\ n = 2 /\ workers_arg = 0 /\ handles = 1
    /\ wpc[1] = "exit"

\* C8: the time source is called once per non-empty batch, before any job is
\* sent or probed; no attempt calls it; every attempt and every returned
\* result carries the batch timestamp, which is the value fetched.
C8_TimeFetchedOnce ==
    /\ timeCalls <= 1
    /\ (n > 0 /\ mpc \notin {"start", "fetch_ts"}) => timeCalls = 1 /\ timeGot.some
    /\ (jobQ # <<>> \/ \E i \in 1..n : deqCnt[i] > 0 \/ attemptLog[i] # <<>>) =>
         timeCalls = 1
    /\ (timeGot.some /\ timeGot.v.ok) => batch_ts = timeGot.v.val
    /\ \A i \in 1..n : \A k \in 1..Len(attemptLog[i]) :
         attemptLog[i][k].timestamp_utc = batch_ts
    /\ (mpc = "done" /\ n > 0) => \A i \in 1..n : result[i].timestamp_utc = batch_ts

\* C8 witness: a returned batch of two whose first target was retried, with
\* the time source answering.
C8_Witness ==
    /\ mpc = "done" /\ n = 2
    /\ timeGot.some /\ timeGot.v.ok
    /\ Len(attemptLog[1]) = 2

\* what a probe of target i yields for the response `call`, by do_request alone
ProbeOf(i, call) == do_request(urls[i], ConfigDefault, call)

\* C9: when the time source fails the batch still runs: every attempt and
\* every returned result has timestamp "unknown", and has the outcome, the
\* flags and the issues of the probe itself, with no issue about the time.
C9_TimeFailureHarmless ==
    (timeGot.some /\ ~timeGot.v.ok) =>
      /\ mpc # "panic"
      /\ \A i \in 1..n : \A k \in 1..Len(attemptLog[i]) :
           /\ attemptLog[i][k].timestamp_utc = "unknown"
           /\ attemptLog[i][k].status = ProbeOf(i, callLog[i][k]).status
           /\ attemptLog[i][k].validation = ProbeOf(i, callLog[i][k]).report
           /\ \A j \in 1..Len(attemptLog[i][k].validation.issues) :
                attemptLog[i][k].validation.issues[j][1] # "Timestamp fetch failed: "
      /\ mpc = "done" =>
           /\ Len(result) = n
           /\ \A i \in 1..n : /\ result[i].timestamp_utc = "unknown"
                              /\ result[i] = Last(attemptLog[i])

\* C9 witness: a returned batch of two for which the time source failed, one
\* of whose results is a Success that passes validation.
C9_Witness ==
    /\ mpc = "done" /\ n = 2
    /\ timeGot.some /\ ~timeGot.v.ok
    /\ \E i \in 1..n : /\ result[i].status.kind = "Success"
                       /\ overall_ok(result[i].validation)

\* C10: for an empty list check_many is either not started or has returned
\* the empty list: no thread, no channel, no call of the time source, no job.
C10_EmptyListReturnsAtOnce ==
    n = 0 =>
      /\ mpc \in {"start", "done"}
      /\ result = <<>>
      /\ handles = 0 /\ \A w \in WorkerIds : wpc[w] = "unborn"
      /\ ~chans /\ ~job_tx /\ res_senders = 0
      /\ timeCalls = 0 /\ ~timeGot.some
      /\ jobQ = <<>> /\ resQ = <<>>

\* C10 witness: check_many returned for an empty list and a request of 2 workers.
C10_Witness ==
    /\ mpc = "done" /\ n = 0 /\ workers_arg = 2

\* ---------------------------------------------- properties of single calls
\* the call of fn has returned
Returned(fn) == fcall.fn = fn /\ fret.some

\* a response was received (Ok or Error::Status), with this status code
GotResponse(call) == call.kind \in {"Ok", "Status"}
Is2xx(code) == code \in 200..299

\* C11: a probe's outcome is Success(code) exactly when a response with a
\* 2xx status was received, HttpError(code) exactly when a response with any
\* other status was received, and Transport exactly when no response was.
C11_OutcomeClassification ==
    Returned("do_request") =>
        LET st == fret.v.status
            c == fcall.call
        IN /\ (st.kind = "Success") <=> (GotResponse(c) /\ Is2xx(c.code))
           /\ (st.kind = "HttpError") <=> (GotResponse(c) /\ ~Is2xx(c.code))
           /\ (st.kind = "Transport") <=> ~GotResponse(c)
           /\ (st.kind # "Transport") => st.code = c.code

HasBodyRules(cfg) == cfg.body_contains_all # <<>> \/ cfg.body_contains_any # <<>>

\* C12: a Transport outcome comes with header_ok = false, body_ok = false and
\* one added transport issue, under every configuration; https_policy_ok and
\* the issues before it are those of the HTTPS policy check.
C12_TransportForcesFlags ==
    (Returned("do_request") /\ fret.v.status.kind = "Transport") =>
        LET rep == fret.v.report
            pol == enforce_https_policy(fcall.url, ReportDefault, fcall.cfg)
        IN /\ ~rep.header_ok
           /\ ~rep.body_ok
           /\ rep.issues = Append(pol.issues, IssueTransport(fcall.call.err))
           /\ rep.https_policy_ok = pol.https_policy_ok

\* a transport failure probed under a configuration without body rules, for
\* a target that violates the HTTPS policy
C12_Witness ==
    /\ Returned("do_request")
    /\ fret.v.status.kind = "Transport"
    /\ ~HasBodyRules(fcall.cfg)
    /\ fcall.cfg.https_required
    /\ fcall.url = UrlHttpB
    /\ Len(fret.v.report.issues) = 2

\* the scheme of a URL: what precedes the first ':', in lower case (schemes
\* are case-insensitive)
Scheme(url) ==
    LET colons == {i \in 1..Len(url) : url[i] = ":"}
    IN IF colons = {} THEN <<>>
       ELSE to_ascii_lowercase(
                SubSeq(url, 1, (CHOOSE i \in colons : \A j \in colons : i <= j) - 1))

\* C13: with https_required, https_policy_ok is false and the "HTTPS
\* required" issue is appended exactly when the target's scheme is not https;
\* otherwise https_policy_ok is true and no issue is added.
C13_HttpsPolicy ==
    Returned("enforce_https_policy") =>
        LET before == fcall.report
            after == fret.v
        IN IF fcall.cfg.https_required /\ Scheme(fcall.url) # <<"h","t","t","p","s">>
           THEN /\ ~after.https_policy_ok
                /\ after.issues = Append(before.issues, IssueHttps)
           ELSE /\ after.https_policy_ok
                /\ after.issues = before.issues

\* an occurrence of the needle at byte offset k whose neighbours, where there
\* are any, are not ASCII alphanumeric
Bounded(text, needle, k) ==
    /\ (k > 0 => ~is_ascii_alphanumeric(text[k]))
    /\ (k + Len(needle) < Len(text) => ~is_ascii_alphanumeric(text[k + Len(needle) + 1]))

\* a needle with a character that is not alphanumeric
HasNonAlphanumeric(needle) ==
    \E i \in 1..Len(needle) :
        ~is_ascii_alphanumeric(needle[i]) /\ needle[i] \notin {"C3", "A9"}

\* token match as the rules state it
TokenMatch(text, needle) ==
    \/ needle = <<>>
    \/ HasNonAlphanumeric(needle) /\ Occurrences(text, needle) # {}
    \/ ~HasNonAlphanumeric(needle) /\ \E k \in Occurrences(text, needle) :
                                          Bounded(text, needle, k)

\* the issues the body rules call for, in configuration order
UnmatchedAll(text, all) == {i \in 1..Len(all) : ~TokenMatch(text, all[i])}
AnyMissed(text, any) == any # <<>> /\ \A j \in 1..Len(any) : ~TokenMatch(text, any[j])
ExpectedBodyIssues(text, all, any, bad) ==
    [k \in 1..Cardinality(bad) |-> IssueBodyMissing(all[Pick(bad, k)])]
    \o (IF AnyMissed(text, any) THEN <<IssueBodyAny(any)>> ELSE <<>>)

\* C14: for every text and configuration check_body_text returns, with ok
\* true exactly when every ALL entry token-matches and the ANY list is empty
\* or has a matching entry, one issue per unmatched ALL entry in order, one
\* ANY issue when the ANY list is non-empty and unmatched; ok iff no issue.
C14_BodyRules ==
    Returned("check_body_text") =>
        LET r == fret.v
            all == fcall.cfg.body_contains_all
            any == fcall.cfg.body_contains_any
        IN /\ ~r.panic
           /\ r.ok <=> (UnmatchedAll(fcall.text, all) = {} /\ ~AnyMissed(fcall.text, any))
           /\ r.issues = ExpectedBodyIssues(fcall.text, all, any,
                                            UnmatchedAll(fcall.text, all))
           /\ r.ok <=> (r.issues = <<>>)

\* C15: for a non-empty needle of alphanumeric characters, contains_token is
\* true exactly when some occurrence of the needle has no ASCII alphanumeric
\* neighbour; a rejected earlier occurrence does not stop the search.
C15_TokenBoundaries ==
    (Returned("contains_token") /\ fcall.needle # <<>>
                                /\ ~HasNonAlphanumeric(fcall.needle)) =>
        ((fret.v = "true") <=>
            \E k \in Occurrences(fcall.text, fcall.needle) :
                Bounded(fcall.text, fcall.needle, k))

\* C16: a needle with a non-alphanumeric character matches exactly when it
\* occurs in the text as a plain substring; an empty needle always matches.
C16_SubstringFallback ==
    Returned("contains_token") =>
        /\ (fcall.needle = <<>> => fret.v = "true")
        /\ (HasNonAlphanumeric(fcall.needle) =>
               fret.v = (IF Occurrences(fcall.text, fcall.needle) # {}
                         THEN "true" ELSE "false"))

\* "a-" found in "1a-a": both neighbours are ASCII alphanumeric
C16_Witness ==
    /\ Returned("contains_token")
    /\ fcall.needle = <<"a", "-">>
    /\ fcall.text = <<"1", "a", "-", "a">>
    /\ fret.v = "true"

\* the response satisfies every header rule of the configuration
HeadersSatisfy(resp, cfg) ==
    /\ \A i \in 1..Len(cfg.required_headers) : header(resp, cfg.required_headers[i]).some
    /\ (cfg.content_type_allow # <<>> =>
           /\ header(resp, ContentType).some
           /\ \E i \in 1..Len(cfg.content_type_allow) :
                 starts_with(to_ascii_lowercase(header(resp, ContentType).v),
                             to_ascii_lowercase(cfg.content_type_allow[i])))
    /\ \A i \in 1..Len(cfg.header_equals) :
           header(resp, cfg.header_equals[i][1]) = Some(cfg.header_equals[i][2])
    /\ \A i \in 1..Len(cfg.header_contains) :
           /\ header(resp, cfg.header_contains[i][1]).some
           /\ Occurrences(header(resp, cfg.header_contains[i][1]).v,
                          cfg.header_contains[i][2]) # {}

\* C17: a response with a non-2xx status whose headers satisfy every header
\* rule, probed without body rules, gives HttpError(code) with header_ok and
\* body_ok true, so overall_ok equals https_policy_ok.
C17_ErrorStatusValidated ==
    (Returned("do_request") /\ GotResponse(fcall.call) /\ ~Is2xx(fcall.call.code)
        /\ HeadersSatisfy(fcall.call, fcall.cfg) /\ ~HasBodyRules(fcall.cfg)) =>
        /\ fret.v.status = HttpError(fcall.call.code)
        /\ fret.v.report.header_ok
        /\ fret.v.report.body_ok
        /\ overall_ok(fret.v.report) = fret.v.report.https_policy_ok

\* C18: Stats::compute on an empty list returns zero everywhere, the average
\* and the uptime included (no division by zero).
C18_EmptyStats ==
    (Returned("compute") /\ fcall.results = <<>>) =>
        fret.v = [ total |-> 0, successes |-> 0, http_errors |-> 0,
                   transport_errors |-> 0,
                   avg_response_ms |-> F64(0), uptime_pct |-> F64(0) ]

C18_Witness == Returned("compute") /\ fcall.results = <<>> /\ fret.v.total = 0

\* how many results have an outcome of this variant
CountKind(results, kind) ==
    Cardinality({i \in 1..Len(results) : results[i].status.kind = kind})

\* C19: total is the list length and each result is counted in exactly the
\* counter of its outcome variant, so the three counters add up to total.
C19_TallyPartition ==
    Returned("compute") =>
        LET st == fret.v
        IN /\ st.total = Len(fcall.results)
           /\ st.successes = CountKind(fcall.results, "Success")
           /\ st.http_errors = CountKind(fcall.results, "HttpError")
           /\ st.transport_errors = CountKind(fcall.results, "Transport")
           /\ st.successes + st.http_errors + st.transport_errors = st.total

\* a list with one result of each variant
C19_Witness ==
    /\ Returned("compute")
    /\ Len(fcall.results) = 3
    /\ \A kind \in {"Success", "HttpError", "Transport"} :
           CountKind(fcall.results, kind) = 1
    /\ fret.v.total = 3

\* the sum of the elapsed milliseconds of the first k results
RECURSIVE SumMs(_, _)
SumMs(results, k) ==
    IF k = 0 THEN 0 ELSE SumMs(results, k - 1) + results[k].response_time

\* C20: for a non-empty list uptime_pct = successes * 100 / total, within
\* 0..100, 100 exactly when every result is Success and 0 exactly when none
\* is; avg_response_ms is the sum of the elapsed milliseconds over total.
C20_UptimeAndAverage ==
    (Returned("compute") /\ fcall.results # <<>>) =>
        LET st == fret.v
            up == st.uptime_pct
            avg == st.avg_response_ms
            len == Len(fcall.results)
            ok == CountKind(fcall.results, "Success")
        IN /\ up.den > 0 /\ up.num * len = ok * 100 * up.den
           /\ 0 <= up.num /\ up.num <= 100 * up.den
           /\ (up = F64(100)) <=> (ok = len)
           /\ (up = F64(0)) <=> (ok = 0)
           /\ avg.den > 0 /\ avg.num * len = SumMs(fcall.results, len) * avg.den

\* one success among three results: uptime 100/3, a mean that is no integer
C20_Witness ==
    /\ Returned("compute")
    /\ Len(fcall.results) = 3
    /\ CountKind(fcall.results, "Success") = 1
    /\ fret.v.uptime_pct = [num |-> 100, den |-> 3]
    /\ fret.v.avg_response_ms.den = 3

\* the probe as it would run with https_required = false
WithoutPolicy(url, cfg, call) ==
    do_request(url, [cfg EXCEPT !.https_required = FALSE], call)

\* C21: the HTTPS policy only reports.  The policy check comes first (its
\* issue precedes every other), and for a violating target the request is
\* still made and the response validated: outcome, header_ok, body_ok and the
\* remaining issues are those of the same probe with https_required = false.
C21_PolicyReportOnly ==
    Returned("do_request") =>
        /\ fret.v.status = WithoutPolicy(fcall.url, fcall.cfg, fcall.call).status
        /\ fret.v.report.header_ok =
               WithoutPolicy(fcall.url, fcall.cfg, fcall.call).report.header_ok
        /\ fret.v.report.body_ok =
               WithoutPolicy(fcall.url, fcall.cfg, fcall.call).report.body_ok
        /\ fret.v.report.https_policy_ok =
               enforce_https_policy(fcall.url, ReportDefault, fcall.cfg).https_policy_ok
        /\ fret.v.report.issues =
               enforce_https_policy(fcall.url, ReportDefault, fcall.cfg).issues
               \o WithoutPolicy(fcall.url, fcall.cfg, fcall.call).report.issues

\* an http target under https_required whose response is a Success with a
\* missing header: the policy issue first, then the header issues
C21_Witness ==
    /\ Returned("do_request")
    /\ fcall.cfg.https_required
    /\ fcall.url = UrlHttpB
    /\ fret.v.status = Success(200)
    /\ ~fret.v.report.https_policy_ok
    /\ ~fret.v.report.header_ok
    /\ fret.v.report.body_ok
    /\ fret.v.report.issues[1] = IssueHttps
    /\ Len(fret.v.report.issues) > 1

\* the issues that come from reading or checking a body
IsBodyIssue(issue) ==
    issue[1] \in {IssueBodyMissing(<<>>)[1], IssueBodyAny(<<>>)[1], IssueBodyRead("")[1]}

\* the same response with nothing to read
WithoutBody(call) == [call EXCEPT !.body = <<>>, !.body_err = FALSE]

\* C24: without body rules every received response, whatever its status,
\* gets body_ok = true and no body issue, and its body is not read: the
\* result is the same whatever the body holds and whether or not reading it
\* would fail.
C24_NoRulesNoBodyRead ==
    (Returned("do_request") /\ GotResponse(fcall.call) /\ ~HasBodyRules(fcall.cfg)) =>
        /\ fret.v.report.body_ok
        /\ \A j \in 1..Len(fret.v.report.issues) : ~IsBodyIssue(fret.v.report.issues[j])
        /\ fret.v = do_request(fcall.url, fcall.cfg, WithoutBody(fcall.call))

\* an error-status response whose body cannot be read, probed without rules
C24_Witness ==
    /\ Returned("do_request")
    /\ ~HasBodyRules(fcall.cfg)
    /\ fcall.call.kind = "Status"
    /\ fcall.call.body_err
    /\ fcall.call.body # <<>>
    /\ fret.v.report.body_ok

\* the same response with a body that can be read
WithReadableBody(call) == [call EXCEPT !.body_err = FALSE]

\* reading the body failed: the reader fails after the bytes of `body`, and
\* the read, which stops at max_body_bytes, went that far
ReadFailed(call, cfg) == call.body_err /\ cfg.max_body_bytes > Len(call.body)

\* C29: when reading the body fails, with body rules configured, the outcome
\* is the one the status gives (as if the read had succeeded), body_ok is
\* false with one "Failed to read response body" issue added last, header_ok
\* is what the headers give, and the retry guard does not fire.
C29_BodyReadFailure ==
    (Returned("do_request") /\ GotResponse(fcall.call) /\ HasBodyRules(fcall.cfg)
        /\ ReadFailed(fcall.call, fcall.cfg)) =>
        /\ fret.v.status.kind \in {"Success", "HttpError"}
        /\ fret.v.status.code = fcall.call.code
        /\ fret.v.status =
               do_request(fcall.url, fcall.cfg, WithReadableBody(fcall.call)).status
        /\ ~fret.v.report.body_ok
        /\ Last(fret.v.report.issues) = IssueBodyRead("io")
        /\ Cardinality({j \in 1..Len(fret.v.report.issues) :
                           IsBodyIssue(fret.v.report.issues[j])}) = 1
        /\ fret.v.report.header_ok = HeadersSatisfy(fcall.call, fcall.cfg)
        /\ \A att \in 0..MaxRetries, retries \in 0..MaxRetries :
               ~ShouldRetry(fret.v.status, att, retries)

\* a 200 response with valid headers whose reader fails after delivering
\* the required text, read under a cap that lies beyond it
C29_Witness ==
    /\ Returned("do_request")
    /\ fcall.call.kind = "Ok" /\ fcall.call.code = 200
    /\ ReadFailed(fcall.call, fcall.cfg)
    /\ fcall.call.body # <<>>
    /\ fcall.cfg.body_contains_all = <<fcall.call.body>>
    /\ fret.v.report.header_ok
    /\ ~fret.v.report.body_ok

\* the rules of a configuration that a response violates
MissingRequired(resp, cfg) ==
    {i \in 1..Len(cfg.required_headers) : ~header(resp, cfg.required_headers[i]).some}
PassesAllowlist(resp, allow) ==
    \/ allow = <<>>
    \/ /\ header(resp, ContentType).some
       /\ \E i \in 1..Len(allow) :
             starts_with(to_ascii_lowercase(header(resp, ContentType).v),
                         to_ascii_lowercase(allow[i]))
UnequalPairs(resp, cfg) ==
    {i \in 1..Len(cfg.header_equals) :
        header(resp, cfg.header_equals[i][1]) # Some(cfg.header_equals[i][2])}
UncontainedPairs(resp, cfg) ==
    {i \in 1..Len(cfg.header_contains) :
        \/ ~header(resp, cfg.header_contains[i][1]).some
        \/ Occurrences(header(resp, cfg.header_contains[i][1]).v,
                       cfg.header_contains[i][2]) = {}}
ViolatedRules(resp, cfg) ==
    Cardinality(MissingRequired(resp, cfg))
    + (IF PassesAllowlist(resp, cfg.content_type_allow) THEN 0 ELSE 1)
    + Cardinality(UnequalPairs(resp, cfg))
    + Cardinality(UncontainedPairs(resp, cfg))

\* the issues a call appended to the report it was given
Added(before, after) == SubSeq(after.issues, Len(before.issues) + 1, Len(after.issues))

\* how often an issue occurs in a list
CountIssue(issues, issue) == Cardinality({j \in 1..Len(issues) : issues[j] = issue})

\* C22: header validation evaluates every rule: the issues the report held
\* stay, one issue is appended per violated rule (each violated rule's issue
\* is among them), and header_ok is false exactly when a rule is violated.
C22_HeaderRulesAllEvaluated ==
    Returned("validate_headers") =>
        /\ SubSeq(fret.v.issues, 1, Len(fcall.report.issues)) = fcall.report.issues
        /\ Len(Added(fcall.report, fret.v)) = ViolatedRules(fcall.call, fcall.cfg)
        /\ fret.v.header_ok <=> (ViolatedRules(fcall.call, fcall.cfg) = 0)
        /\ \A i \in MissingRequired(fcall.call, fcall.cfg) :
               CountIssue(Added(fcall.report, fret.v),
                          IssueMissingHeader(fcall.cfg.required_headers[i])) >= 1
        /\ \A i \in UnequalPairs(fcall.call, fcall.cfg) :
               \E j \in 1..Len(Added(fcall.report, fret.v)) :
                   Added(fcall.report, fret.v)[j][2] = fcall.cfg.header_equals[i][1]
        /\ \A i \in UncontainedPairs(fcall.call, fcall.cfg) :
               \E j \in 1..Len(Added(fcall.report, fret.v)) :
                   Added(fcall.report, fret.v)[j][2] = fcall.cfg.header_contains[i][1]

\* a response that violates a rule of each of the four kinds
C22_Witness ==
    /\ Returned("validate_headers")
    /\ MissingRequired(fcall.call, fcall.cfg) # {}
    /\ ~PassesAllowlist(fcall.call, fcall.cfg.content_type_allow)
    /\ UnequalPairs(fcall.call, fcall.cfg) # {}
    /\ UncontainedPairs(fcall.call, fcall.cfg) # {}
    /\ Len(Added(fcall.report, fret.v)) >= 4
    /\ ~fret.v.header_ok

\* C23: with a non-empty allowlist a response passes exactly when it has a
\* Content-Type whose value starts, ignoring case, with an allowed entry; a
\* value that does not gets one "Content-Type not allowed" issue, an absent
\* header one "Missing header" issue instead; an empty allowlist adds neither.
C23_ContentTypeAllowlist ==
    Returned("validate_headers") =>
        /\ CountIssue(Added(fcall.report, fret.v),
                      IssueCtNotAllowed(header(fcall.call, ContentType).v)) =
             (IF header(fcall.call, ContentType).some
                 /\ ~PassesAllowlist(fcall.call, fcall.cfg.content_type_allow)
              THEN 1 ELSE 0)
        /\ CountIssue(Added(fcall.report, fret.v), IssueMissingHeader(ContentType)) =
             (IF header(fcall.call, ContentType).some THEN 0
              ELSE (IF fcall.cfg.content_type_allow # <<>> THEN 1 ELSE 0)
                   + Cardinality({i \in MissingRequired(fcall.call, fcall.cfg) :
                                     fcall.cfg.required_headers[i] = ContentType}))
        /\ (ViolatedRules(fcall.call, [fcall.cfg EXCEPT !.content_type_allow = <<>>]) = 0
              => (fret.v.header_ok <=>
                     PassesAllowlist(fcall.call, fcall.cfg.content_type_allow)))

\* "TEXT/HTML" passes the allowlist ["text/html", "application/json"]
C23_Witness ==
    /\ Returned("validate_headers")
    /\ header(fcall.call, ContentType) = Some(CtTextHtmlUpper)
    /\ fcall.cfg.content_type_allow = <<CtTextHtml, CtAppJson>>
    /\ fret.v.header_ok

\* the text body validation is to examine: the first max_body_bytes bytes
CappedText(body, cap) ==
    from_utf8_lossy(SubSeq(body, 1, IF cap < Len(body) THEN cap ELSE Len(body)))

\* C25: body validation examines the first max_body_bytes bytes only.  The
\* truncation adds no issue; body_ok and the issues are what the body rules
\* give on the truncated text, so a required token found only beyond the cap
\* is reported missing and a token within the cap is found.
C25_BodyCapped ==
    (Returned("validate_body") /\ ~ReadFailed(fcall.call, fcall.cfg)) =>
        /\ fret.v.body_ok <=>
              /\ UnmatchedAll(CappedText(fcall.call.body, fcall.cfg.max_body_bytes),
                              fcall.cfg.body_contains_all) = {}
              /\ ~AnyMissed(CappedText(fcall.call.body, fcall.cfg.max_body_bytes),
                            fcall.cfg.body_contains_any)
        /\ Added(fcall.report, fret.v) =
              ExpectedBodyIssues(
                  CappedText(fcall.call.body, fcall.cfg.max_body_bytes),
                  fcall.cfg.body_contains_all, fcall.cfg.body_contains_any,
                  UnmatchedAll(CappedText(fcall.call.body, fcall.cfg.max_body_bytes),
                               fcall.cfg.body_contains_all))


\* ------------------------------------------------ properties of retried targets
\* C26: a returned result is the final attempt alone: its outcome, elapsed
\* time, flags and issues are those of one probe, started from an empty
\* report, of the last response; an issue of an earlier attempt is in it only
\* if the last attempt raised it too, and then once.
C26_OnlyFinalAttemptKept ==
    (mpc = "done" /\ n > 0) =>
        \A i \in 1..n :
            /\ result[i].status = ProbeOf(i, Last(callLog[i])).status
            /\ result[i].response_time = Last(callLog[i]).ms
            /\ result[i].validation = ProbeOf(i, Last(callLog[i])).report
            /\ Len(result[i].validation.issues) <= 3
            /\ Last(callLog[i]).kind # "Err" =>
                 CountIssue(result[i].validation.issues, IssueTransport("dns")) = 0
            /\ CountIssue(result[i].validation.issues, IssueHttps) <= 1

\* C26 witness: a returned http target first failed with Transport, with the
\* policy issue and the transport issue, then succeeded; its result holds the
\* policy issue once and nothing else.
C26_Witness ==
    /\ mpc = "done" /\ n = 2
    /\ Len(attemptLog[2]) = 2
    /\ attemptLog[2][1].validation.issues = <<IssueHttps, IssueTransport("dns")>>
    /\ result[2].status.kind = "Success"
    /\ result[2].response_time = 1
    /\ result[2].validation.issues = <<IssueHttps>>

\* the workers that hold target i
Holders(i) == {w \in WorkerIds : wpc[w] \in {"probe", "send"} /\ wjob[w].idx + 1 = i}
Queued(i) == \E k \in 1..Len(jobQ) : jobQ[k].idx + 1 = i

\* a dequeued target stays with one worker, whose counter counts its attempts
HeldByOneWorker ==
    \A i \in 1..n :
        /\ deqCnt[i] <= 1
        /\ Queued(i) => (deqCnt[i] = 0 /\ callLog[i] = <<>>)
        /\ Cardinality(Holders(i)) <= 1
        /\ (deqCnt[i] = 1 /\ sentCnt[i] = 0) => Cardinality(Holders(i)) = 1
        /\ \A w \in Holders(i) :
             Len(callLog[i]) = attempts[w] + (IF wpc[w] = "send" THEN 1 ELSE 0)

\* an attempt is made by the worker holding the target, which keeps it
AttemptByHolder ==
    \A i \in 1..n :
        callLog'[i] # callLog[i] =>
           \E w \in Holders(i) : /\ wpc[w] = "probe"
                                 /\ wjob'[w] = wjob[w]
                                 /\ wpc'[w] \in {"probe", "send"}
                                 /\ jobQ' = jobQ

\* C27: a target is dequeued once and never queued again; from then until its
\* result is sent one worker holds it, that worker's own counter accounts for
\* every attempt made for it, and each attempt is made by the worker holding
\* it, which keeps it afterwards.
C27_RetriesLocal == []HeldByOneWorker /\ [][AttemptByHolder]_vars

\* C27 witness: a worker is about to retry its target while another target
\* waits in the queue for the other worker.
C27_Witness ==
    /\ n = 2 /\ workers = 2
    /\ \E w \in WorkerIds : /\ wpc[w] = "probe" /\ attempts[w] = 1
                            /\ Len(callLog[wjob[w].idx + 1]) = 1
    /\ jobQ # <<>>

\* C28: in every attempt's result, and so in every returned result,
\* overall_ok() holds exactly when there is no issue.
C28_OverallOkIffNoIssue ==
    /\ \A i \in 1..n : \A k \in 1..Len(attemptLog[i]) :
         overall_ok(attemptLog[i][k].validation)
            <=> attemptLog[i][k].validation.issues = <<>>
    /\ mpc = "done" =>
         \A i \in 1..Len(result) :
            (result[i].validation.header_ok /\ result[i].validation.body_ok
                /\ result[i].validation.https_policy_ok)
               <=> Len(result[i].validation.issues) = 0

\* C28 witness: a returned batch holds an error response that fails the
\* headers alone, with two issues, and a result that fails the https policy
\* alone.
C28_Witness ==
    /\ mpc = "done" /\ n = 2
    /\ \E i \in 1..n : /\ result[i].status.kind = "HttpError"
                       /\ ~result[i].validation.header_ok
                       /\ result[i].validation.body_ok
                       /\ result[i].validation.https_policy_ok
                       /\ Len(result[i].validation.issues) = 2
    /\ \E i \in 1..n : /\ ~result[i].validation.https_policy_ok
                       /\ result[i].validation.header_ok
                       /\ Len(result[i].validation.issues) = 1

\* C30: targets leave the job queue in input order: a dequeued target's
\* predecessors were all dequeued before, and the queue holds the targets
\* sent and not yet dequeued, in input order.
C30_DequeuedInInputOrder ==
    /\ \A i, j \in 1..n : (i < j /\ deqCnt[j] > 0) => deqCnt[i] > 0
    /\ \A k \in 1..Len(jobQ) : deqCnt[jobQ[k].idx + 1] = 0
    /\ \A k \in 1..(Len(jobQ) - 1) : jobQ[k].idx < jobQ[k + 1].idx

\* C30 witness: with two workers, the first target is dequeued while the
\* second waits in the queue.
C30_Witness ==
    /\ n = 2 /\ workers = 2
    /\ deqCnt[1] = 1 /\ deqCnt[2] = 0
    /\ Len(jobQ) = 1 /\ jobQ[1].idx = 1


\* C31: token matching is total: for every text and needle, multi-byte
\* alphanumeric characters included, contains_token returns true or false
\* and never aborts by slicing the text inside a character.
C31_TokenMatchTotal ==
    Returned("contains_token") => fret.v \in {"true", "false"}

====
